---- MODULE Spec2Model ----
(***************************************************************************)
(* glif_cond: conductance-based generalized leaky integrate-and-fire       *)
(* neuron (models/glif_cond.h).  The header holds the data layout, the     *)
(* recordable accessors, the connection checks for current events and      *)
(* data-logging requests, and set_status.  Parameters_::set, State_::set,  *)
(* calibrate, update, the constructor and the spike-event connection check *)
(* are only declared there; they are modelled from the written design      *)
(* (spec.md, sections 3, 4.1-4.6, 6).                                      *)
(*                                                                         *)
(* Potentials, currents and conductances are small integers.  S_.y_[V_M],  *)
(* S_.threshold_, P_.th_inf_ and P_.V_reset_ are relative to E_L, as the   *)
(* accessors of get_state_element show (they add P_.E_L_ back).            *)
(***************************************************************************)
EXTENDS Integers, Sequences, FiniteSets, TLC

\* ------------------------------------------------------------------ bounds
MaxReceptors == 2      \* longest tau_syn / E_rev array a dictionary carries
MaxLoggers == 1        \* logging devices that may be connected

\* ------------------------------------------------- State_::StateVecElems
V_M == 0
I == 1
ASC_SUM == 2
TH == 3
TH_SPK == 4
TH_VLT == 5
DG_SYN == 6
G_SYN == 7
NUMBER_OF_FIXED_STATES_ELEMENTS == 1
NUMBER_OF_RECORDABLES_ELEMENTS == DG_SYN - 1
NUMBER_OF_STATES_ELEMENTS_PER_RECEPTOR == 2

\* B_.step_: the resolution, in the time unit t_ref is given in
step_ == 3

VARIABLES
    P_,               \* Parameters_: the visible parameter set
    S_,               \* State_: y_ and the discrete scalars
    V_,               \* Variables_: coefficients cached by calibrate
    B_,               \* Buffers_: I_ and the connected logging devices
    recordablesMap_,  \* DynamicRecordablesMap: recordable name -> element
    last              \* the operation just performed and its outcome

vars == <<P_, S_, V_, B_, recordablesMap_, last>>

\* ------------------------------------------------------------- helpers
Sgn(x) == IF x > 0 THEN 1 ELSE IF x < 0 THEN -1 ELSE 0

\* a / b rounded to the nearest integer, halves away from zero (b > 0)
RoundDiv(a, b) ==
    IF a >= 0 THEN (2 * a + b) \div (2 * b)
    ELSE -((2 * (-a) + b) \div (2 * b))

RECURSIVE SumSeq(_)
SumSeq(s) == IF s = <<>> THEN 0 ELSE Head(s) + SumSeq(Tail(s))

\* updateValue< T >( d, key, x ): the dictionary's entry when it has one
updateValue(d, key, old) == IF key \in DOMAIN d THEN d[key] ELSE old

\* --------------------------------------------------------- Parameters_
n_receptors_(p) == Len(p.tau_syn_)

\* Parameters_(): one after-spike current channel, one receptor port,
\* all mechanism flags off
Parameters_default ==
    [ E_L_ |-> 0, th_inf_ |-> 2, t_ref_ |-> 5, V_reset_ |-> 0,
      th_spike_add_ |-> 1, voltage_reset_add_ |-> 0,
      asc_init_ |-> <<0>>, asc_decay_ |-> <<1>>, asc_amps_ |-> <<1>>,
      asc_r_ |-> <<1>>,
      tau_syn_ |-> <<1>>, E_rev_ |-> <<3>>,
      has_theta_spike_ |-> FALSE, has_asc_ |-> FALSE,
      has_theta_voltage_ |-> FALSE ]

\* the five mechanism combinations of GLIF models 1..5
ValidMechanism(spk, asc, vlt) ==
    \/ ~spk /\ ~asc /\ ~vlt
    \/ spk /\ ~asc /\ ~vlt
    \/ ~spk /\ asc /\ ~vlt
    \/ spk /\ asc /\ ~vlt
    \/ spk /\ asc /\ vlt

\* the refractory period in steps, as calibrate caches it
RefractorySteps(p) == RoundDiv(p.t_ref_, step_)

\* Parameters_::set: overlay d onto p; V_th and V_reset are given as
\* absolute potentials and kept relative to E_L.  ok = FALSE stands for
\* the BadProperty it throws.
Parameters_set_candidate(p, d) ==
    LET E_L_new == updateValue(d, "E_L", p.E_L_)
        delta == E_L_new - p.E_L_
    IN [ p EXCEPT
           !.E_L_ = E_L_new,
           !.th_inf_ = IF "V_th" \in DOMAIN d THEN d["V_th"] - E_L_new
                       ELSE p.th_inf_ - delta,
           !.V_reset_ = IF "V_reset" \in DOMAIN d THEN d["V_reset"] - E_L_new
                        ELSE p.V_reset_ - delta,
           !.t_ref_ = updateValue(d, "t_ref", p.t_ref_),
           !.voltage_reset_add_ =
               updateValue(d, "voltage_reset_add", p.voltage_reset_add_),
           !.asc_amps_ = updateValue(d, "asc_amps", p.asc_amps_),
           !.tau_syn_ = updateValue(d, "tau_syn", p.tau_syn_),
           !.E_rev_ = updateValue(d, "E_rev", p.E_rev_),
           !.has_theta_spike_ =
               updateValue(d, "spike_dependent_threshold", p.has_theta_spike_),
           !.has_asc_ = updateValue(d, "after_spike_currents", p.has_asc_),
           !.has_theta_voltage_ =
               updateValue(d, "adapting_threshold", p.has_theta_voltage_) ]

Parameters_valid(q) ==
    /\ Len(q.asc_init_) = Len(q.asc_decay_)
    /\ Len(q.asc_decay_) = Len(q.asc_amps_)
    /\ Len(q.asc_amps_) = Len(q.asc_r_)
    /\ Len(q.tau_syn_) = Len(q.E_rev_)
    /\ ValidMechanism(q.has_theta_spike_, q.has_asc_, q.has_theta_voltage_)
    /\ RefractorySteps(q) >= 0

Parameters_set(p, d) ==
    LET q == Parameters_set_candidate(p, d)
    IN [ ok |-> Parameters_valid(q), p |-> q, delta_EL |-> q.E_L_ - p.E_L_ ]

\* -------------------------------------------------------------- State_
\* a resize that keeps the voltage and starts every pair from zero
ResizeY_reinit(y, n) ==
    [ i \in 1 .. (NUMBER_OF_FIXED_STATES_ELEMENTS
                  + NUMBER_OF_STATES_ELEMENTS_PER_RECEPTOR * n) |->
        IF i = V_M + 1 THEN y[i] ELSE 0 ]

\* y_ cut or zero-extended to the length n receptors need
ResizeY(y, n) ==
    [ i \in 1 .. (NUMBER_OF_FIXED_STATES_ELEMENTS
                  + NUMBER_OF_STATES_ELEMENTS_PER_RECEPTOR * n) |->
        IF i <= Len(y) THEN y[i] ELSE 0 ]

\* State_( const Parameters_& )
State_init(p) ==
    [ y_ |-> ResizeY(<<0>>, n_receptors_(p)),
      threshold_ |-> p.th_inf_,
      threshold_spike_ |-> 0,
      threshold_voltage_ |-> 0,
      ASCurrents_ |-> p.asc_init_,
      ASCurrents_sum_ |-> 0,
      refractory_steps_ |-> 0 ]

\* State_::set: V_m is given absolute, otherwise the relative voltage is
\* re-based by the shift of E_L; y_ follows the receptor count of p.
State_set(s, d, p, delta_EL) ==
    LET y0 == IF "V_m" \in DOMAIN d THEN d["V_m"] - p.E_L_
              ELSE s.y_[V_M + 1] - delta_EL
        asc == updateValue(d, "ASCurrents", s.ASCurrents_)
        t == [ s EXCEPT
                 !.y_ = ResizeY([ s.y_ EXCEPT ![V_M + 1] = y0 ],
                                n_receptors_(p)),
                 !.ASCurrents_ = asc ]
    IN [ ok |-> Len(asc) = Len(p.asc_amps_), s |-> t ]

\* Archiving_Node::set_status: owned by the parent class; the dictionary
\* entry says whether it throws
Archiving_Node_set_status(d) == updateValue(d, "parent_ok", TRUE)

\* ------------------------------------------------------ recordablesMap_
get_g_receptor_name(receptor) == <<"g", receptor>>

\* DynamicRecordablesMap::insert: std::map::insert keeps an existing entry
MapInsert(m, name, elem) ==
    IF name \in DOMAIN m THEN m
    ELSE [ k \in DOMAIN m \cup {name} |-> IF k = name THEN elem ELSE m[k] ]

MapErase(m, name) == [ k \in DOMAIN m \ {name} |-> m[k] ]

ConductanceElem(receptor) ==
    G_SYN + receptor * NUMBER_OF_STATES_ELEMENTS_PER_RECEPTOR

\* the loop "for ( receptor = from; receptor < to; ++receptor ) insert"
RECURSIVE InsertLoop(_, _, _)
InsertLoop(m, from, to) ==
    IF from >= to THEN m
    ELSE InsertLoop(MapInsert(m, get_g_receptor_name(from),
                              ConductanceElem(from)),
                    from + 1, to)

\* the loop "for ( receptor = from; receptor < to; ++receptor ) erase"
RECURSIVE EraseLoop(_, _, _)
EraseLoop(m, from, to) ==
    IF from >= to THEN m
    ELSE EraseLoop(MapErase(m, get_g_receptor_name(from)), from + 1, to)

\* the recordables the constructor creates before the conductances
FixedRecordables ==
    [ k \in { <<"V_m", 0>>, <<"I", 0>>, <<"ASCurrents_sum", 0>>,
              <<"threshold", 0>>, <<"threshold_spike", 0>>,
              <<"threshold_voltage", 0>> } |->
        CASE k[1] = "V_m" -> V_M
          [] k[1] = "I" -> I
          [] k[1] = "ASCurrents_sum" -> ASC_SUM
          [] k[1] = "threshold" -> TH
          [] k[1] = "threshold_spike" -> TH_SPK
          [] OTHER -> TH_VLT ]

insert_conductance_recordables(m, p, first) ==
    InsertLoop(m, first, n_receptors_(p))

\* variant: the erase loop starts one receptor too late
UpdateRecordables_late_erase(m, pold, pnew) ==
    IF n_receptors_(pnew) > n_receptors_(pold)
    THEN InsertLoop(m, n_receptors_(pold), n_receptors_(pnew))
    ELSE IF n_receptors_(pnew) < n_receptors_(pold)
    THEN EraseLoop(m, n_receptors_(pnew) + 1, n_receptors_(pold))
    ELSE m

\* the registry update of set_status
UpdateRecordables(m, pold, pnew) ==
    IF n_receptors_(pnew) > n_receptors_(pold)
    THEN InsertLoop(m, n_receptors_(pold), n_receptors_(pnew))
    ELSE IF n_receptors_(pnew) < n_receptors_(pold)
    THEN EraseLoop(m, n_receptors_(pnew), n_receptors_(pold))
    ELSE m

\* ---------------------------------------------------------- set_status
\* the outcome of set_status( d ) on ( P_, S_, recordablesMap_ ): the
\* temporaries are validated first, then the parent, then the registry is
\* updated and the temporaries are assigned
\* variant: the registry is updated before the temporaries are validated
set_status_registry_first(p, s, m, d) ==
    LET pr == Parameters_set(p, d)
        sr == State_set(s, d, pr.p, pr.delta_EL)
        m2 == UpdateRecordables(m, p, pr.p)
    IN IF ~pr.ok \/ ~sr.ok \/ ~Archiving_Node_set_status(d)
       THEN [ ok |-> FALSE, p |-> p, s |-> s, m |-> m2 ]
       ELSE [ ok |-> TRUE, p |-> pr.p, s |-> sr.s, m |-> m2 ]

\* variant: Parameters_::set works on P_ itself, not on a temporary
set_status_no_temporary(p, s, m, d) ==
    LET pr == Parameters_set(p, d)
        sr == State_set(s, d, pr.p, pr.delta_EL)
    IN IF ~pr.ok \/ ~sr.ok \/ ~Archiving_Node_set_status(d)
       THEN [ ok |-> FALSE, p |-> pr.p, s |-> s, m |-> m ]
       ELSE [ ok |-> TRUE, p |-> pr.p, s |-> sr.s,
              m |-> UpdateRecordables(m, p, pr.p) ]

set_status_result(p, s, m, d) ==
    LET pr == Parameters_set(p, d)
        sr == State_set(s, d, pr.p, pr.delta_EL)
    IN IF ~pr.ok \/ ~sr.ok \/ ~Archiving_Node_set_status(d)
       THEN [ ok |-> FALSE, p |-> p, s |-> s, m |-> m ]
       ELSE [ ok |-> TRUE, p |-> pr.p, s |-> sr.s,
              m |-> UpdateRecordables(m, p, pr.p) ]

set_status(d) ==
    \E r \in { set_status_result(P_, S_, recordablesMap_, d) } :
       /\ P_' = r.p
       /\ S_' = r.s
       /\ recordablesMap_' = r.m
       /\ last' = [ op |-> "set_status", ok |-> r.ok, port |-> 0 ]
       /\ UNCHANGED <<V_, B_>>

\* --------------------------------------------------- get_state_element
\* variant: the recordables offset taken as DG_SYN
ElementIndex_offset_dg(elem) ==
    IF elem = V_M THEN elem
    ELSE IF elem \in { I, ASC_SUM, TH, TH_SPK, TH_VLT } THEN -1
    ELSE elem - DG_SYN

\* the position in y_ (counted from 0) that get_state_element( elem )
\* reads, -1 when it reads a scalar outside y_
ElementIndex(elem) ==
    IF elem = V_M THEN elem
    ELSE IF elem \in { I, ASC_SUM, TH, TH_SPK, TH_VLT } THEN -1
    ELSE elem - NUMBER_OF_RECORDABLES_ELEMENTS

get_state_element(p, s, b, elem) ==
    IF elem = V_M THEN s.y_[ElementIndex(elem) + 1] + p.E_L_
    ELSE IF elem = I THEN b.I_
    ELSE IF elem = ASC_SUM THEN s.ASCurrents_sum_
    ELSE IF elem = TH THEN s.threshold_ + p.E_L_
    ELSE IF elem = TH_SPK THEN s.threshold_spike_
    ELSE IF elem = TH_VLT THEN s.threshold_voltage_
    ELSE s.y_[ElementIndex(elem) + 1]

\* ----------------------------------------------------------- calibrate
\* the coefficients calibrate caches for parameters p
Coefficients(p) ==
    [ RefractoryCounts_ |-> RefractorySteps(p),
      CondInitialValues_ |-> [ i \in 1 .. n_receptors_(p) |-> 1 ] ]

\* the kernel calibrates after the last set_status and before it updates
Calibrated == V_ = Coefficients(P_)

\* calibrate: recomputes V_ from P_ (on a calibrated neuron it changes
\* nothing, so it is taken only when it is due)
calibrate ==
    /\ ~Calibrated
    /\ V_' = Coefficients(P_)
    /\ last' = [ op |-> "calibrate", ok |-> TRUE, port |-> 0 ]
    /\ UNCHANGED <<P_, S_, B_, recordablesMap_>>

\* -------------------------------------------------------------- update
\* positions in y_ (counted from 0) of receptor r's pair, r = 0, 1, ...
DgPos(r) == NUMBER_OF_FIXED_STATES_ELEMENTS
            + r * NUMBER_OF_STATES_ELEMENTS_PER_RECEPTOR
GPos(r) == DgPos(r) + 1

\* one step of exponential decay outside / inside the refractory period
Decay(x) == x \div 2
RefractoryDecay(x) == (x + 1) \div 2

\* glif_cond_dynamics: the sign of dV/dt = leak towards rest
\* - sum g * ( V - E_rev ) - after-spike currents + injected current
dVdt(p, y, asc_sum, I_e) ==
    (- y[V_M + 1])
    + SumSeq([ r \in 1 .. n_receptors_(p) |->
                 y[GPos(r - 1) + 1] * (p.E_rev_[r] - (y[V_M + 1] + p.E_L_)) ])
    - asc_sum + I_e

\* the spike weights of this step, added to the auxiliary elements
InjectSpikes(y, w, c) ==
    [ i \in 1 .. Len(y) |->
        IF i > 1 /\ (i - 1) % 2 = 1
        THEN y[i] + w[i \div 2] * c[i \div 2]
        ELSE y[i] ]

\* the conductance pairs across one step of the alpha function: the
\* auxiliary element has become the conductance
EvolveConductances(y) ==
    [ i \in 1 .. Len(y) |->
        IF i = 1 THEN y[i]
        ELSE IF (i - 1) % 2 = 1 THEN 0
        ELSE y[i - 1] ]

\* the voltage after a spike, relative to E_L
ResetVoltage(p) ==
    IF p.has_theta_spike_
    THEN (p.th_inf_ \div 2) + p.voltage_reset_add_
    ELSE p.V_reset_

CompositeThreshold(p, s) ==
    s.threshold_spike_ + s.threshold_voltage_ + p.th_inf_

\* variant: the voltage is integrated during the refractory period too
UpdateEvolve_no_hold(p, v, s, w, I_e) ==
    LET refractory == s.refractory_steps_ > 0
        y1 == InjectSpikes(s.y_, w, v.CondInitialValues_)
        asc_sum == IF p.has_asc_ THEN SumSeq(s.ASCurrents_) ELSE 0
        v_new == y1[V_M + 1] + Sgn(dVdt(p, y1, asc_sum, I_e))
        y2 == [ EvolveConductances(y1) EXCEPT ![V_M + 1] = v_new ]
        th_spk == IF ~p.has_theta_spike_ THEN s.threshold_spike_
                  ELSE IF refractory THEN RefractoryDecay(s.threshold_spike_)
                  ELSE Decay(s.threshold_spike_)
        th_vlt == IF ~p.has_theta_voltage_ THEN s.threshold_voltage_
                  ELSE IF v_new > 0 THEN 1 ELSE 0
    IN [ s EXCEPT
           !.y_ = y2,
           !.ASCurrents_sum_ = asc_sum,
           !.threshold_spike_ = th_spk,
           !.threshold_voltage_ = th_vlt,
           !.threshold_ = th_spk + th_vlt + p.th_inf_,
           !.refractory_steps_ =
               IF refractory THEN s.refractory_steps_ - 1
               ELSE s.refractory_steps_ ]

\* steps 1-4 of the update: drain, hold or integrate, decay, threshold
UpdateEvolve(p, v, s, w, I_e) ==
    LET refractory == s.refractory_steps_ > 0
        y1 == InjectSpikes(s.y_, w, v.CondInitialValues_)
        asc_sum == IF p.has_asc_ THEN SumSeq(s.ASCurrents_) ELSE 0
        v_new == IF refractory THEN y1[V_M + 1]
                 ELSE y1[V_M + 1] + Sgn(dVdt(p, y1, asc_sum, I_e))
        y2 == [ EvolveConductances(y1) EXCEPT ![V_M + 1] = v_new ]
        asc == IF ~p.has_asc_ THEN s.ASCurrents_
               ELSE [ a \in 1 .. Len(s.ASCurrents_) |->
                        IF refractory THEN RefractoryDecay(s.ASCurrents_[a])
                        ELSE Decay(s.ASCurrents_[a]) ]
        th_spk == IF ~p.has_theta_spike_ THEN s.threshold_spike_
                  ELSE IF refractory THEN RefractoryDecay(s.threshold_spike_)
                  ELSE Decay(s.threshold_spike_)
        th_vlt == IF ~p.has_theta_voltage_ THEN s.threshold_voltage_
                  ELSE IF v_new > 0 THEN 1 ELSE 0
    IN [ s EXCEPT
           !.y_ = y2,
           !.ASCurrents_ = asc,
           !.ASCurrents_sum_ = asc_sum,
           !.threshold_spike_ = th_spk,
           !.threshold_voltage_ = th_vlt,
           !.threshold_ = th_spk + th_vlt + p.th_inf_,
           !.refractory_steps_ =
               IF refractory THEN s.refractory_steps_ - 1
               ELSE s.refractory_steps_ ]

\* step 5 of the update: the threshold test
SpikeCondition(s) == s.y_[V_M + 1] >= s.threshold_

\* step 5 of the update: the discrete reset at a spike
UpdateReset(p, v, s) ==
    [ s EXCEPT
        !.y_ = [ s.y_ EXCEPT ![V_M + 1] = ResetVoltage(p) ],
        !.threshold_spike_ =
            IF p.has_theta_spike_ THEN s.threshold_spike_ + p.th_spike_add_
            ELSE s.threshold_spike_,
        !.ASCurrents_ =
            IF p.has_asc_
            THEN [ a \in 1 .. Len(s.ASCurrents_) |->
                     (s.ASCurrents_[a] \div 2) + p.asc_amps_[a] ]
            ELSE s.ASCurrents_,
        !.refractory_steps_ = v.RefractoryCounts_ ]

\* one update step.  A refractory step holds the voltage and counts down
\* until the counter reaches zero, so the threshold test and the reset
\* belong to the steps that integrate the voltage.
update_result(p, v, s, w, I_e) ==
    LET e == UpdateEvolve(p, v, s, w, I_e)
    IN IF s.refractory_steps_ = 0 /\ SpikeCondition(e)
       THEN [ spike |-> TRUE, s |-> UpdateReset(p, v, e) ]
       ELSE [ spike |-> FALSE, s |-> e ]

update(w, I_e) ==
    /\ Calibrated
    /\ \E r \in { update_result(P_, V_, S_, w, I_e) } :
          /\ S_' = r.s
          /\ last' = [ op |-> "update", ok |-> r.spike, port |-> 0 ]
    /\ B_' = [ B_ EXCEPT !.I_ = I_e ]
    /\ UNCHANGED <<P_, V_, recordablesMap_>>

\* -------------------------------------------------- handles_test_event
\* SpikeEvent: the port must name a receptor
handles_test_event_Spike(receptor_type) ==
    /\ last' = [ op |-> "SpikeEvent",
                 ok |-> (receptor_type >= 0
                         /\ receptor_type < n_receptors_(P_)),
                 port |-> receptor_type ]
    /\ UNCHANGED <<P_, S_, V_, B_, recordablesMap_>>

\* variant: only negative ports are refused
CurrentEventAccepted_nonnegative(receptor_type) == ~(receptor_type < 0)

\* CurrentEvent: throws UnknownReceptorType unless receptor_type is 0
CurrentEventAccepted(receptor_type) == ~(receptor_type # 0)

handles_test_event_Current(receptor_type) ==
    /\ last' = [ op |-> "CurrentEvent",
                 ok |-> CurrentEventAccepted(receptor_type),
                 port |-> receptor_type ]
    /\ UNCHANGED <<P_, S_, V_, B_, recordablesMap_>>

\* DataLoggingRequest: throws UnknownReceptorType unless receptor_type is
\* 0, otherwise connects the device to the logger
DataLoggingAccepted(receptor_type) == ~(receptor_type # 0)

handles_test_event_DataLogging(receptor_type) ==
    /\ DataLoggingAccepted(receptor_type) => B_.loggers < MaxLoggers
    /\ B_' = IF DataLoggingAccepted(receptor_type)
             THEN [ B_ EXCEPT !.loggers = @ + 1 ]
             ELSE B_
    /\ last' = [ op |-> "DataLoggingRequest",
                 ok |-> DataLoggingAccepted(receptor_type),
                 port |-> receptor_type ]
    /\ UNCHANGED <<P_, S_, V_, recordablesMap_>>

\* -------------------------------------------------------- dictionaries
Restrict(f, K) == [ k \in K |-> f[k] ]

TauSyn(n) == [ i \in 1 .. n |-> 1 ]
ERev(n) == [ i \in 1 .. n |-> 3 ]

FlagKeys ==
    { "spike_dependent_threshold", "after_spike_currents",
      "adapting_threshold" }

FlagDicts ==
    { Restrict(f, K) : f \in [ FlagKeys -> BOOLEAN ], K \in SUBSET FlagKeys }

ReceptorDicts ==
    { Restrict(f, K) :
        f \in [ tau_syn : { TauSyn(n) : n \in 0 .. MaxReceptors },
                E_rev : { ERev(n) : n \in 0 .. MaxReceptors },
                E_L : { 0, 1 },
                V_m : { 1 } ],
        K \in SUBSET { "tau_syn", "E_rev", "E_L", "V_m" } }

RejectedDicts ==
    { [ asc_amps |-> <<1, 1>> ], [ ASCurrents |-> <<1, 1>> ],
      [ parent_ok |-> FALSE ], [ t_ref |-> -3 ] }

\* the dictionaries of the configuration runs
Dicts ==
    FlagDicts \cup ReceptorDicts \cup RejectedDicts
    \cup { [ ASCurrents |-> <<1>> ] }

\* the dictionaries of the dynamics runs
DynamicsDicts ==
    { Restrict(f, K) :
        f \in [ t_ref : { -3, 1, 5 }, V_th : { 1, 2 }, V_reset : { 0, 2 } ],
        K \in { {"t_ref"}, {"V_th"}, {"V_reset"} } }
    \cup [ FlagKeys -> BOOLEAN ]

\* the dictionaries of the reconfiguration runs
ReconfigurationDicts ==
    { Restrict(f, K) :
        f \in [ tau_syn : { TauSyn(n) : n \in 0 .. MaxReceptors },
                E_rev : { ERev(n) : n \in 0 .. MaxReceptors },
                V_m : { 1 } ],
        K \in { {"tau_syn"}, {"tau_syn", "E_rev"},
                {"tau_syn", "E_rev", "V_m"} } }
    \cup { [ parent_ok |-> FALSE ] }

\* the dictionaries of the resize runs: those of the reconfiguration
\* runs and changes of the receptor arrays that also move E_L
ResizeDicts ==
    ReconfigurationDicts
    \cup { [ tau_syn |-> TauSyn(n), E_rev |-> ERev(n), E_L |-> e ] :
             n \in 0 .. MaxReceptors, e \in { 0, 1 } }

Ports == -1 .. MaxReceptors + 1

\* the spike weights drained for one step, one per receptor
Weights(n) == [ 1 .. n -> { 0, 1 } ]

Currents == { 0, 1 }

\* ----------------------------------------------------------------- Init
Init ==
    /\ P_ = Parameters_default
    /\ S_ = State_init(Parameters_default)
    /\ V_ = [ RefractoryCounts_ |-> 0, CondInitialValues_ |-> <<>> ]
    /\ B_ = [ I_ |-> 0, loggers |-> 0 ]
    /\ recordablesMap_ =
           insert_conductance_recordables(FixedRecordables,
                                          Parameters_default, 0)
    /\ last = [ op |-> "init", ok |-> TRUE, port |-> 0 ]

\* configuration and connection: set_status and the connection checks
Next ==
    \/ \E d \in Dicts : set_status(d)
    \/ \E receptor_type \in Ports : handles_test_event_Spike(receptor_type)
    \/ \E receptor_type \in Ports : handles_test_event_Current(receptor_type)
    \/ \E receptor_type \in Ports :
         handles_test_event_DataLogging(receptor_type)

Spec == Init /\ [][Next]_vars

\* simulation: updates with spike and current input between changes of
\* the dynamics parameters
Simulate ==
    \E w \in Weights(n_receptors_(P_)), I_e \in Currents : update(w, I_e)

NextDyn ==
    \/ \E d \in DynamicsDicts : set_status(d)
    \/ calibrate
    \/ Simulate

SpecDyn == Init /\ [][NextDyn]_vars

\* reconfiguration: updates with spike input between changes of the
\* receptor arrays
SimulateSpikes ==
    \E w \in Weights(n_receptors_(P_)) : update(w, 0)

NextReconf ==
    \/ \E d \in ReconfigurationDicts : set_status(d)
    \/ calibrate
    \/ SimulateSpikes

SpecReconf == Init /\ [][NextReconf]_vars

\* resize: as the reconfiguration runs, with changes of the resting
\* potential among the changes of the receptor arrays
NextResize ==
    \/ \E d \in ResizeDicts : set_status(d)
    \/ calibrate
    \/ SimulateSpikes

SpecResize == Init /\ [][NextResize]_vars

\* =============================================================== properties
ConfigVars == <<P_, S_, V_, B_, recordablesMap_>>

\* C1: a rejected set_status leaves P_, S_ and the recordable registry as
\* they were before the call
C1_SetStatusAllOrNothing ==
    [][ (last'.op = "set_status" /\ ~last'.ok)
        => (P_' = P_ /\ S_' = S_ /\ recordablesMap_' = recordablesMap_) ]_vars

\* a call is rejected on a neuron whose parameters, voltage and registry
\* were changed by earlier calls
C1_Witness ==
    /\ last.op = "set_status" /\ ~last.ok
    /\ n_receptors_(P_) = 2
    /\ P_.has_theta_spike_
    /\ S_.y_[V_M + 1] # 0

LegalTuples ==
    { <<FALSE, FALSE, FALSE>>, <<TRUE, FALSE, FALSE>>,
      <<FALSE, TRUE, FALSE>>, <<TRUE, TRUE, FALSE>>, <<TRUE, TRUE, TRUE>> }

FlagTuple(p) ==
    <<p.has_theta_spike_, p.has_asc_, p.has_theta_voltage_>>

\* C2: the visible flag tuple is always one of the five legal tuples, and
\* a dictionary that sets all three flags is accepted exactly when it
\* names one of the five
C2_FlagTuplesLegal ==
    /\ FlagTuple(P_) \in LegalTuples
    /\ \A f \in [ FlagKeys -> BOOLEAN ] :
         set_status_result(P_, S_, recordablesMap_, f).ok
         <=> (<<f["spike_dependent_threshold"], f["after_spike_currents"],
                f["adapting_threshold"]>> \in LegalTuples)

\* a flag dictionary was refused on a neuron that runs GLIF model 5
C2_Witness ==
    /\ last.op = "set_status" /\ ~last.ok
    /\ FlagTuple(P_) = <<TRUE, TRUE, TRUE>>

\* C3: the conductance channels of the registry are exactly those named
\* for ports 0 .. receptor_count - 1, each registered with the element of
\* its own port, next to the six fixed recordables
C3_RegistryMatchesReceptors ==
    /\ DOMAIN recordablesMap_ =
         DOMAIN FixedRecordables
         \cup { <<"g", r>> : r \in 0 .. n_receptors_(P_) - 1 }
    /\ \A r \in 0 .. n_receptors_(P_) - 1 :
         recordablesMap_[<<"g", r>>] = 7 + 2 * r
    /\ \A k \in DOMAIN FixedRecordables :
         recordablesMap_[k] = FixedRecordables[k]

\* the receptor count went up to 2 and then down to 0
C3_Witness ==
    /\ last.op = "set_status" /\ last.ok
    /\ n_receptors_(P_) = 0
    /\ P_.has_asc_

TestOps == { "SpikeEvent", "CurrentEvent", "DataLoggingRequest" }

\* C6: a spike connection is accepted exactly for ports 0 ..
\* receptor_count - 1, a current connection or logging request exactly for
\* port 0, and a refused check changes nothing of the neuron
C6_ConnectionChecks ==
    [][ (last'.op \in TestOps)
        => /\ (last'.op = "SpikeEvent")
              => (last'.ok <=> (last'.port \in 0 .. n_receptors_(P_) - 1))
           /\ (last'.op \in { "CurrentEvent", "DataLoggingRequest" })
              => (last'.ok <=> (last'.port = 0))
           /\ ~last'.ok => UNCHANGED ConfigVars
           /\ UNCHANGED <<P_, S_, V_, recordablesMap_>> ]_vars

\* a spike connection to the port just past the last receptor is refused
C6_Witness ==
    /\ last.op = "SpikeEvent" /\ ~last.ok
    /\ last.port = n_receptors_(P_)
    /\ n_receptors_(P_) = 2

\* C7: the two receptor arrays of the visible parameters have one length,
\* which is the receptor count, and a dictionary whose overlay gives them
\* different lengths is rejected
C7_ReceptorArraysAgree ==
    /\ Len(P_.tau_syn_) = Len(P_.E_rev_)
    /\ n_receptors_(P_) = Len(P_.E_rev_)
    /\ \A d \in ReceptorDicts :
         LET ts == IF "tau_syn" \in DOMAIN d THEN d["tau_syn"]
                   ELSE P_.tau_syn_
             er == IF "E_rev" \in DOMAIN d THEN d["E_rev"] ELSE P_.E_rev_
             r == set_status_result(P_, S_, recordablesMap_, d)
         IN /\ (Len(ts) # Len(er)) => ~r.ok
            /\ r.ok => (n_receptors_(r.p) = Len(ts) /\ Len(r.p.E_rev_) = Len(ts))

\* a dictionary with arrays of one length was accepted and the next one,
\* with a lone tau_syn of another length, refused
C7_Witness ==
    /\ last.op = "set_status" /\ ~last.ok
    /\ n_receptors_(P_) = 2
    /\ Len(P_.E_rev_) = 2

\* C10: y_ has 1 + 2 * receptor_count elements; the channel of port r
\* reads position 2 + 2r of y_, inside the vector, and the six fixed
\* recordables read position 0 or no position of y_
C10_StateVectorLayout ==
    /\ Len(S_.y_) = 1 + 2 * n_receptors_(P_)
    /\ \A k \in DOMAIN recordablesMap_ :
         IF k[1] = "g"
         THEN /\ ElementIndex(recordablesMap_[k]) = 2 + 2 * k[2]
              /\ ElementIndex(recordablesMap_[k]) < Len(S_.y_)
              /\ get_state_element(P_, S_, B_, recordablesMap_[k])
                 = S_.y_[2 + 2 * k[2] + 1]
         ELSE ElementIndex(recordablesMap_[k]) \in { -1, 0 }

\* two receptors, the second with a nonzero conductance after an update
C10_Witness ==
    /\ last.op = "update"
    /\ n_receptors_(P_) = 2
    /\ get_state_element(P_, S_, B_, recordablesMap_[<<"g", 1>>]) = 1
    /\ get_state_element(P_, S_, B_, recordablesMap_[<<"g", 0>>]) = 0

C8_CompositeThreshold ==
    S_.threshold_ =
        S_.threshold_spike_ + S_.threshold_voltage_ + P_.th_inf_

\* C9: the refractory counter, the cached refractory-step count and the
\* rounded refractory period of the visible parameters are never negative
C9_RefractoryNonNegative ==
    /\ S_.refractory_steps_ >= 0
    /\ V_.RefractoryCounts_ >= 0
    /\ RoundDiv(P_.t_ref_, step_) >= 0

\* a spike was recorded with a cached refractory-step count of 0
C9_Witness ==
    /\ last.op = "update" /\ last.ok
    /\ V_.RefractoryCounts_ = 0
    /\ S_.refractory_steps_ = 0
    /\ P_.t_ref_ = 1

\* the per-receptor pairs of y1 are those of y0 for the receptors both
\* have, and zero for the receptors only y1 has
PairsKept(y0, y1) ==
    \A i \in (NUMBER_OF_FIXED_STATES_ELEMENTS + 1) .. Len(y1) :
        y1[i] = IF i <= Len(y0) THEN y0[i] ELSE 0

\* C11: an accepted set_status that changes the receptor count from n to
\* m leaves y_ with 1 + 2m elements, keeps the pairs of receptors
\* 0 .. min(n,m)-1 (so that for m < n exactly the trailing pairs go) and
\* appends zero pairs for receptors n .. m-1; it keeps the
\* membrane-voltage element when the dictionary neither carries V_m nor
\* moves E_L
C11_ResizeKeepsState ==
    [][ \A d \in ResizeDicts :
          ( /\ set_status(d)
            /\ last'.ok
            /\ n_receptors_(P_') # n_receptors_(P_) )
          => /\ Len(S_'.y_) = NUMBER_OF_FIXED_STATES_ELEMENTS
                 + NUMBER_OF_STATES_ELEMENTS_PER_RECEPTOR * n_receptors_(P_')
             /\ PairsKept(S_.y_, S_'.y_)
             /\ ("V_m" \notin DOMAIN d /\ P_'.E_L_ = P_.E_L_)
                => S_'.y_[V_M + 1] = S_.y_[V_M + 1] ]_vars

\* a second receptor was added since the last calibrate (the cached
\* initial values are those of one receptor) and the first receptor
\* keeps the conductance it had; the new pair is zero
C11_Witness ==
    /\ last.op = "set_status" /\ last.ok
    /\ Len(V_.CondInitialValues_) = 1
    /\ n_receptors_(P_) = 2
    /\ Len(S_.y_) = 5
    /\ S_.y_[GPos(0) + 1] > 0
    /\ S_.y_[DgPos(1) + 1] = 0 /\ S_.y_[GPos(1) + 1] = 0

\* C11 as stated: every accepted set_status that changes the receptor
\* count keeps the membrane-voltage element and the pairs
C11_ResizeKeepsVoltage ==
    [][ ( /\ last'.op = "set_status" /\ last'.ok
          /\ n_receptors_(P_') # n_receptors_(P_) )
        => /\ S_'.y_[V_M + 1] = S_.y_[V_M + 1]
           /\ PairsKept(S_.y_, S_'.y_) ]_vars
====
